---------------------------- MODULE Spec2Model ----------------------------
(***************************************************************************)
(* Model of the campaign dashboard (src/src/App.tsx and its later revision *)
(* src/unnamed/part_000): the media-allocation slider, the composite       *)
(* improvement score, the forecast chainer and the two logs it feeds.      *)
(*                                                                         *)
(* Every JavaScript `number` is an IEEE-754 binary64 value.  The code      *)
(* rounds results of divisions and multiplications (Math.round, toFixed),  *)
(* so the model evaluates the arithmetic as the engine does: a double is a *)
(* pair (m, e) standing for m * 2^e with m a natural number of at most 53  *)
(* bits, and every operation rounds its exact result to nearest, ties to   *)
(* even.  Mantissas do not fit TLC's 32-bit integers, so they are kept as  *)
(* little-endian sequences of 13-bit limbs.                                *)
(***************************************************************************)
EXTENDS Integers, Sequences, FiniteSets, TLC

(***************************************************************************)
(* Natural numbers of arbitrary size: little-endian limbs, no high zeros.  *)
(***************************************************************************)
LimbBits == 12 + 1
Base == 2^LimbBits

RECURSIVE Trim(_)
Trim(s) ==
  IF s = <<>> THEN s
  ELSE IF s[Len(s)] = 0 THEN Trim(SubSeq(s, 1, Len(s) - 1)) ELSE s

RECURSIVE NatToBig(_)
NatToBig(n) == IF n = 0 THEN <<>> ELSE <<n % Base>> \o NatToBig(n \div Base)

RECURSIVE BigToNat(_)
BigToNat(s) == IF s = <<>> THEN 0 ELSE Head(s) + Base * BigToNat(Tail(s))

Hd(s) == IF s = <<>> THEN 0 ELSE Head(s)
Tl(s) == IF s = <<>> THEN <<>> ELSE Tail(s)

RECURSIVE AddC(_, _, _)
AddC(s, t, c) ==
  IF s = <<>> /\ t = <<>> THEN (IF c = 0 THEN <<>> ELSE <<c>>)
  ELSE LET v == Hd(s) + Hd(t) + c
       IN  <<v % Base>> \o AddC(Tl(s), Tl(t), v \div Base)

BigAdd(s, t) == AddC(s, t, 0)

RECURSIVE SubB(_, _, _)
SubB(s, t, b) ==
  IF s = <<>> THEN <<>>
  ELSE LET v == Head(s) - Hd(t) - b
       IN  <<IF v < 0 THEN v + Base ELSE v>>
             \o SubB(Tail(s), Tl(t), IF v < 0 THEN 1 ELSE 0)

\* s - t, for s >= t
BigSub(s, t) == Trim(SubB(s, t, 0))

RECURSIVE MulSmallC(_, _, _)
MulSmallC(s, k, c) ==
  IF s = <<>> THEN NatToBig(c)
  ELSE LET v == Head(s) * k + c
       IN  <<v % Base>> \o MulSmallC(Tail(s), k, v \div Base)

\* s * k, for 0 <= k < 2^17
BigMulSmall(s, k) == IF k = 0 THEN <<>> ELSE MulSmallC(s, k, 0)

ShiftLimbs(s, n) == IF s = <<>> THEN <<>> ELSE [i \in 1..n |-> 0] \o s

RECURSIVE BigMul(_, _)
BigMul(s, t) ==
  IF t = <<>> \/ s = <<>> THEN <<>>
  ELSE BigAdd(BigMulSmall(s, Head(t)), ShiftLimbs(BigMul(s, Tail(t)), 1))

RECURSIVE CmpFrom(_, _, _)
CmpFrom(s, t, i) ==
  IF i = 0 THEN 0
  ELSE IF s[i] > t[i] THEN 1
  ELSE IF s[i] < t[i] THEN -1
  ELSE CmpFrom(s, t, i - 1)

\* -1, 0 or 1 as s <, = or > t
BigCmp(s, t) ==
  IF Len(s) > Len(t) THEN 1
  ELSE IF Len(s) < Len(t) THEN -1
  ELSE CmpFrom(s, t, Len(s))

RECURSIVE BitLenSmall(_)
BitLenSmall(n) == IF n = 0 THEN 0 ELSE 1 + BitLenSmall(n \div 2)

BigBitLen(s) ==
  IF s = <<>> THEN 0 ELSE LimbBits * (Len(s) - 1) + BitLenSmall(s[Len(s)])

\* quotient and remainder of s by d, for 0 < d < 2^17
RECURSIVE DivRec(_, _)
DivRec(s, d) ==
  IF s = <<>> THEN [q |-> <<>>, r |-> 0]
  ELSE LET hi  == DivRec(Tail(s), d)
           cur == hi.r * Base + Head(s)
       IN  [q |-> <<cur \div d>> \o hi.q, r |-> cur % d]

BigDivSmall(s, d) == LET x == DivRec(s, d) IN [q |-> Trim(x.q), r |-> x.r]

\* s * 2^n and floor(s / 2^n)
BigShl(s, n) == ShiftLimbs(BigMulSmall(s, 2^(n % LimbBits)), n \div LimbBits)

BigShr(s, n) ==
  LET drop == n \div LimbBits
  IN  IF drop >= Len(s) THEN <<>>
      ELSE BigDivSmall(SubSeq(s, drop + 1, Len(s)), 2^(n % LimbBits)).q

(***************************************************************************)
(* IEEE-754 binary64, non-negative finite values in the normal range (the  *)
(* only ones the modelled operations meet): value = m * 2^e.               *)
(***************************************************************************)
MantBits == 52 + 1

FZero == [m |-> <<>>, e |-> 0]
FromInt(n) == [m |-> NatToBig(n), e |-> 0]

\* round the exact value N * 2^e (plus a nonzero tail below it when sticky)
\* to the nearest double, ties to even
RoundNearestEven(N, e, sticky) ==
  LET bl == BigBitLen(N)
  IN  IF bl <= MantBits THEN [m |-> N, e |-> e]
      ELSE LET n    == bl - MantBits
               q    == BigShr(N, n)
               rem  == BigSub(N, BigShl(q, n))
               c    == BigCmp(rem, BigShl(<<1>>, n - 1))
               up   == c = 1 \/ (c = 0 /\ (sticky \/ q[1] % 2 = 1))
               m2   == IF up THEN BigAdd(q, <<1>>) ELSE q
           IN  IF BigBitLen(m2) > MantBits
               THEN [m |-> BigShr(m2, 1), e |-> e + n + 1]
               ELSE [m |-> m2, e |-> e + n]

Min(a, b) == IF a < b THEN a ELSE b
Max(a, b) == IF a > b THEN a ELSE b

FAdd(x, y) ==
  LET e == Min(x.e, y.e)
  IN  RoundNearestEven(BigAdd(BigShl(x.m, x.e - e), BigShl(y.m, y.e - e)), e, FALSE)

\* x - y, for x >= y
FSub(x, y) ==
  LET e == Min(x.e, y.e)
  IN  RoundNearestEven(BigSub(BigShl(x.m, x.e - e), BigShl(y.m, y.e - e)), e, FALSE)

FMul(x, y) == RoundNearestEven(BigMul(x.m, y.m), x.e + y.e, FALSE)

\* x / y where y is a positive integer below 2^17 held as (y, 0): every
\* divisor in the program (100, 10, a sum of allocation shares) is one
DivShift == 72 + 1
FDiv(x, y) ==
  IF x.m = <<>> THEN FZero
  ELSE LET dm == BigDivSmall(BigShl(x.m, DivShift), BigToNat(y.m))
       IN  RoundNearestEven(dm.q, x.e - y.e - DivShift, dm.r # 0)

\* the double denoted by the decimal numeral n/d (d a power of ten): numeric
\* literals and string-to-number conversion are correctly rounded
FromDecimal(n, d) == FDiv(FromInt(n), FromInt(d))

\* floor(x + 1/2), computed exactly
RoundHalfUp(x) ==
  IF x.e >= 0 THEN BigToNat(BigShl(x.m, x.e))
  ELSE BigToNat(BigShr(BigAdd(BigShl(x.m, 1), BigShl(<<1>>, -x.e)), 1 - x.e))

\* Math.round(x): nearest integer, ties towards +Infinity
MathRound(x) == RoundHalfUp(x)

\* Math.floor(x)
MathFloor(x) ==
  IF x.e >= 0 THEN BigToNat(BigShl(x.m, x.e)) ELSE BigToNat(BigShr(x.m, -x.e))

\* x.toFixed(digits), returned as the integer n of the numeral n / 10^digits:
\* the n with n / 10^digits nearest the exact value of x, the larger n on a tie
ToFixed(x, digits) == RoundHalfUp([m |-> BigMulSmall(x.m, 10^digits), e |-> x.e])

\* x = y as numbers
FEq(x, y) ==
  LET e == Min(x.e, y.e)
  IN  BigCmp(BigShl(x.m, x.e - e), BigShl(y.m, y.e - e)) = 0

\* x > y as numbers
FGt(x, y) ==
  LET e == Min(x.e, y.e)
  IN  BigCmp(BigShl(x.m, x.e - e), BigShl(y.m, y.e - e)) = 1

\* ceil(x - 1/2), computed exactly
RoundHalfDown(x) ==
  IF x.e >= 0 THEN BigToNat(BigShl(x.m, x.e))
  ELSE BigToNat(BigShr(BigSub(BigAdd(BigShl(x.m, 1), BigShl(<<1>>, -x.e)), <<1>>), 1 - x.e))

\* A decimal numeral n/d (d a power of ten) names the double nearest to it;
\* numbers held in the state and passed to helpers are kept as numerals.
Dec(n, d) == [n |-> n, d |-> d]
ToDouble(x) == FromDecimal(x.n, x.d)

\* not-a-number and the two infinities, written as numerals over 0
NaN == Dec(0, 0)
PosInfinity == Dec(1, 0)
NegInfinity == Dec(-1, 0)

\* Number.isNaN(x), Number.isFinite(x)
IsNaN(x) == x.d = 0 /\ x.n = 0
IsFinite(x) == x.d # 0

\* x < 0 and x > k for a numeral x (finite or not) and a natural number k
LessThanZero(x) == ~IsNaN(x) /\ x.n < 0
GreaterThan(x, k) ==
  /\ ~IsNaN(x)
  /\ x.n > 0
  /\ (IsFinite(x) => FGt(ToDouble(x), FromInt(k)))

\* Math.round(x) for a finite numeral x; the magnitude of a negative x is
\* rounded with its halves going towards zero
MathRoundNumeral(x) ==
  IF x.n >= 0 THEN MathRound(ToDouble(x))
  ELSE -RoundHalfDown(ToDouble(Dec(-x.n, x.d)))


(***************************************************************************)
(* Program constants                                                       *)
(***************************************************************************)
\* keys, in the canonical order used by setAllocForChannel
Keys == <<"OOH", "TV", "Digital", "CTV">>
Channels == {Keys[i] : i \in 1..Len(Keys)}

\* useState initial value of mediaAlloc
InitialMediaAlloc == [k \in Channels |->
  CASE k = "OOH" -> 30 [] k = "TV" -> 30 [] k = "Digital" -> 25 [] k = "CTV" -> 15]

(***************************************************************************)
(* Bounds of the model                                                     *)
(***************************************************************************)
\* number of positions the range slider is moved to: 0, 100 and the evenly
\* spaced integer values between them
SliderStops == 4
\* number of slider changes in one session
MaxSliderMoves == 3

SliderValues == {(100 * i) \div (SliderStops - 1) : i \in 0..(SliderStops - 1)}

\* number of applyImprovement calls in one session
MaxApplies == 3

\* number of "Refresh Sentiment" clicks in one session
MaxRefreshes == 8

\* number of panel and goal changes in one session
MaxNavMoves == 3

\* number of "Get recommendations" clicks in one session
MaxRanks == 2

\* number of clicks in one session that moves through the panels
MaxSession == 3

VARIABLES
  mediaAlloc,       \* useState: the four allocation shares
  selectedChannel,  \* useState: the channel the single slider edits
  sliderMoves,      \* number of slider changes so far (bounds the session)
  performanceData,  \* useState: the performance log, a sequence of points
  aiActivities,     \* useState: the activity log, a sequence of records
  lastCall,         \* the last direct call of a helper, with its result, or
                    \* the last call of applyImprovement, with its arguments
  active,           \* useState: the panel shown
  selectedGoal,     \* useState: the campaign goal
  variants,         \* useState: the creative variants
  navMoves,         \* number of panel and goal changes so far
  audienceSentiment,    \* useState: the sentiment categories
  audienceSuggestions,  \* useState: the suggestions derived from them
  refreshes,        \* number of "Refresh Sentiment" clicks so far
  engine,           \* Decision Engine, useState: the engine selected
  rankResp,         \* Decision Engine, useState: the rank response, or none
  autoApply,        \* Decision Engine, useState: the auto-apply checkbox
  lastReward,       \* Decision Engine, useState: the reward event, or none
  timers,           \* callbacks handed to setTimeout and not yet run
  ranks             \* number of "Get recommendations" clicks so far

\* the state of App outside the simulator and the logs
appVars == <<active, selectedGoal, variants, navMoves>>
audienceVars == <<audienceSentiment, audienceSuggestions, refreshes>>
\* the state of the Decision Engine component, and its pending callbacks
engineState == <<engine, rankResp, autoApply, lastReward>>
engineVars == <<engineState, timers, ranks>>

vars == <<mediaAlloc, selectedChannel, sliderMoves, performanceData, aiActivities, lastCall,
          appVars, audienceVars, engineVars>>

NoCall == [op |-> "none"]

(***************************************************************************)
(* setAllocForChannel                                                      *)
(***************************************************************************)
RECURSIVE SumSeq(_, _)
\* seq.reduce((s, k) => s + f[k], 0)
SumSeq(f, seq) == IF seq = <<>> THEN 0 ELSE f[Head(seq)] + SumSeq(f, Tail(seq))

\* keys.filter((k) => k !== channel)
Others(channel) == SelectSeq(Keys, LAMBDA k : k # channel)

\* variant: only the upper limit is applied
ClampValUpperOnly(rawVal) == Min(100, rawVal)

\* Math.max(0, Math.min(100, Math.round(rawVal))) for an integer rawVal
ClampVal(rawVal) == Max(0, Min(100, rawVal))

\* the same for a numeral rawVal other than NaN: Math.round leaves an
\* infinity as it is, Math.min and Math.max then put it on a limit
ClampRaw(rawVal) ==
  IF ~IsFinite(rawVal) THEN (IF rawVal.n > 0 THEN 100 ELSE 0)
  ELSE ClampVal(MathRoundNumeral(rawVal))

\* variant: every other channel keeps at least one point
ProportionalShareAtLeastOne(share, prevOthersSum, remaining) ==
  Max(1, MathRound(FMul(FDiv(FromInt(share), FromInt(prevOthersSum)), FromInt(remaining))))

\* Math.round(((mediaAlloc as any)[o] / prevOthersSum) * remaining)
ProportionalShare(share, prevOthersSum, remaining) ==
  MathRound(FMul(FDiv(FromInt(share), FromInt(prevOthersSum)), FromInt(remaining)))

\* variant: the equal split divides the whole 100 instead of `remaining`
EqualSplitOfWhole(newAlloc, others, remaining) ==
  [k \in Channels |->
     IF \E i \in 1..Len(others) : others[i] = k
     THEN MathFloor(FDiv(FromInt(100), FromInt(Len(others)))) ELSE newAlloc[k]]

\* variant: the leftover goes to the last of the other channels
EqualSplitLeftoverLast(newAlloc, others, remaining) ==
  LET per    == MathFloor(FDiv(FromInt(remaining), FromInt(Len(others))))
      split  == [k \in Channels |->
                   IF \E i \in 1..Len(others) : others[i] = k THEN per ELSE newAlloc[k]]
      sumNow == SumSeq(split, others)
      rem    == remaining - sumNow
  IN  IF rem > 0 THEN [split EXCEPT ![others[Len(others)]] = @ + rem] ELSE split

\* the else branch: distribute equally if previous others sum to 0
EqualSplit(newAlloc, others, remaining) ==
  LET per    == MathFloor(FDiv(FromInt(remaining), FromInt(Len(others))))
      split  == [k \in Channels |->
                   IF \E i \in 1..Len(others) : others[i] = k THEN per ELSE newAlloc[k]]
      sumNow == SumSeq(split, others)
      rem    == remaining - sumNow
  IN  IF rem > 0 THEN [split EXCEPT ![others[1]] = @ + rem] ELSE split

\* variant: the correction goes to the last of the other channels
FixRoundingLastOther(newAlloc, channel) ==
  LET total == SumSeq(newAlloc, Keys)
      others == Others(channel)
  IN  IF total # 100
      THEN [newAlloc EXCEPT ![others[Len(others)]] = Max(0, @ + (100 - total))]
      ELSE newAlloc

\* variant: the correction is applied without the floor at 0
FixRoundingUnclamped(newAlloc, channel) ==
  LET total == SumSeq(newAlloc, Keys)
  IN  IF total # 100
      THEN [newAlloc EXCEPT ![Head(Others(channel))] = @ + (100 - total)]
      ELSE newAlloc

\* fix rounding so total === 100
FixRounding(newAlloc, channel) ==
  LET total == SumSeq(newAlloc, Keys)
  IN  IF total # 100
      THEN LET delta          == 100 - total
               firstAdjustKey == Head(Others(channel))
           IN  [newAlloc EXCEPT ![firstAdjustKey] = Max(0, @ + delta)]
      ELSE newAlloc

\* the allocation handed to setMediaAlloc
NewAlloc(current, channel, rawVal) ==
  LET val           == ClampVal(rawVal)
      others        == Others(channel)
      prevOthersSum == SumSeq(current, others)
      remaining     == Max(0, 100 - val)
      set           == [current EXCEPT ![channel] = val]
      spread        == IF prevOthersSum > 0
                       THEN [k \in Channels |->
                               IF k = channel THEN val
                               ELSE ProportionalShare(current[k], prevOthersSum, remaining)]
                       ELSE EqualSplit(set, others, remaining)
  IN  FixRounding(spread, channel)

\* shares as numerals
Numerals(alloc) == [k \in Channels |-> Dec(alloc[k], 1)]

\* the allocation handed to setMediaAlloc when rawVal is NaN. Math.round,
\* Math.min and Math.max all return NaN, so val and remaining are NaN and so
\* is every share computed from them (in either branch; `rem > 0` is false).
\* In the total, `n || 0` reads each NaN share as 0, so delta is 100 and the
\* first other channel becomes Math.max(0, (NaN || 0) + 100); `?? 0` keeps
\* the NaN shares.
NewAllocNaN(channel) ==
  [k \in Channels |-> IF k = Head(Others(channel)) THEN Dec(100, 1) ELSE NaN]

\* the allocation handed to setMediaAlloc for a numeral rawVal, as numerals
NewAllocOfRaw(current, channel, rawVal) ==
  IF IsNaN(rawVal) THEN NewAllocNaN(channel)
  ELSE Numerals(NewAlloc(current, channel, ClampRaw(rawVal)))

SetAllocForChannel(channel, rawVal) ==
  /\ mediaAlloc' = NewAlloc(mediaAlloc, channel, rawVal)

(***************************************************************************)
(* computeForecast                                                         *)
(***************************************************************************)
\* { CPA, Conversions }: the argument `last` and the result
Pair(cpa, conversions) == [CPA |-> cpa, Conversions |-> conversions]

\* variant: the CPA is rounded to a whole number
ForecastCPAWhole(lastCPA, improvement) ==
  Dec(MathRound(FMul(lastCPA, FSub(FromInt(1), FDiv(improvement, FromInt(100))))), 1)

\* +(last.CPA * (1 - improvement / 100)).toFixed(2), as a numeral
ForecastCPA(lastCPA, improvement) ==
  Dec(ToFixed(FMul(lastCPA, FSub(FromInt(1), FDiv(improvement, FromInt(100)))), 2), 100)

\* variant: Math.floor in place of Math.round
ForecastConversionsFloor(lastConversions, improvement) ==
  Dec(MathFloor(FMul(lastConversions, FAdd(FromInt(1), FDiv(improvement, FromInt(100))))), 1)

\* Math.round(last.Conversions * (1 + improvement / 100)), as a numeral
ForecastConversions(lastConversions, improvement) ==
  Dec(MathRound(FMul(lastConversions, FAdd(FromInt(1), FDiv(improvement, FromInt(100))))), 1)

\* variant: toFixed(1) in place of toFixed(2)
ComputeForecastOneDecimal(last, improvement) ==
  [CPA         |-> Dec(ToFixed(FMul(ToDouble(last.CPA),
                                    FSub(FromInt(1), FDiv(ToDouble(improvement), FromInt(100)))), 1), 10),
   Conversions |-> ForecastConversions(ToDouble(last.Conversions), ToDouble(improvement))]

\* variant: Conversions scaled by the CPA factor (1 - improvement / 100)
ComputeForecastSameFactor(last, improvement) ==
  [CPA         |-> ForecastCPA(ToDouble(last.CPA), ToDouble(improvement)),
   Conversions |-> Dec(MathRound(FMul(ToDouble(last.Conversions),
                                      FSub(FromInt(1), FDiv(ToDouble(improvement), FromInt(100))))), 1)]

\* last: [CPA, Conversions] and improvement are numerals
ComputeForecast(last, improvement) ==
  [CPA         |-> ForecastCPA(ToDouble(last.CPA), ToDouble(improvement)),
   Conversions |-> ForecastConversions(ToDouble(last.Conversions), ToDouble(improvement))]

(***************************************************************************)
(* computeCompositeImprovement                                             *)
(***************************************************************************)
\* name and improvement of each entry, in the order of the array
MediaInventorySubcategories ==
  << [name |-> "Out-of-Home (OOH)", improvement |-> Dec(133, 10)],
     [name |-> "TV",                improvement |-> Dec(102, 10)],
     [name |-> "Digital",           improvement |-> Dec(39, 10)],
     [name |-> "Connected TV",      improvement |-> Dec(22, 10)] >>

\* variant: the CTV share is filed under the channel key, not the subcategory name
MappingByChannelKey(alloc) ==
  [n \in {"Out-of-Home (OOH)", "TV", "Digital", "CTV"} |->
     CASE n = "Out-of-Home (OOH)" -> alloc.OOH
       [] n = "TV"                -> alloc.TV
       [] n = "Digital"           -> alloc.Digital
       [] n = "CTV"               -> alloc.CTV]

\* the object literal `mapping`: subcategory name -> allocation share
Mapping(alloc) ==
  [n \in {"Out-of-Home (OOH)", "TV", "Digital", "Connected TV"} |->
     CASE n = "Out-of-Home (OOH)" -> alloc.OOH
       [] n = "TV"                -> alloc.TV
       [] n = "Digital"           -> alloc.Digital
       [] n = "Connected TV"      -> alloc.CTV]

\* mapping[name] ?? 0
Lookup(mapping, name) == IF name \in DOMAIN mapping THEN mapping[name] ELSE 0

RECURSIVE Weighted(_, _, _, _)
\* the for loop: weighted += (pct / total) * s.improvement
Weighted(mapping, total, subs, weighted) ==
  IF subs = <<>> THEN weighted
  ELSE LET pct == Lookup(mapping, Head(subs).name)
       IN  Weighted(mapping, total, Tail(subs),
                    FAdd(weighted, FMul(FDiv(FromInt(pct), FromInt(total)),
                                        ToDouble(Head(subs).improvement))))

RECURSIVE SumValues(_, _)
SumValues(f, keys) ==
  IF keys = {} THEN 0
  ELSE LET k == CHOOSE x \in keys : TRUE IN f[k] + SumValues(f, keys \ {k})

\* variant: the shares are taken to be percentages of 100
MappingTotalAssumed100(mapping) == 100

\* Object.values(mapping).reduce((s, v) => s + v, 0)
MappingTotal(mapping) == SumValues(mapping, DOMAIN mapping)

\* variant: only a negative total returns early
CompositeGuardNegativeOnly(total) == total < 0

\* if (total <= 0) return 0
CompositeGuard(total) == total <= 0

\* the returned numeral: 0, or Math.round(weighted * 10) / 10
ComputeCompositeImprovement(alloc) ==
  LET mapping == Mapping(alloc)
      total   == MappingTotal(mapping)
  IN  IF CompositeGuard(total) THEN Dec(0, 1)
      \* only past the guard: x / 0 is NaN or an infinity of either sign, and
      \* the weighted sum of such terms is NaN
      ELSE IF total = 0 THEN NaN
      ELSE Dec(MathRound(FMul(Weighted(mapping, total, MediaInventorySubcategories, FZero),
                              FromInt(10))), 10)

(***************************************************************************)
(* clampPercent                                                            *)
(***************************************************************************)
\* variant: Math.floor in place of Math.round
ClampPercentFloor(n) ==
  IF IsNaN(n) THEN 0
  ELSE IF LessThanZero(n) THEN 0
  ELSE IF GreaterThan(n, 100) THEN 100
  ELSE MathFloor(ToDouble(n))

\* the four returns of clampPercent, in order
ClampPercent(n) ==
  IF IsNaN(n) THEN 0
  ELSE IF LessThanZero(n) THEN 0
  ELSE IF GreaterThan(n, 100) THEN 100
  ELSE MathRoundNumeral(n)

(***************************************************************************)
(* The two logs and applyImprovement                                       *)
(***************************************************************************)
Point(cycle, actualCPA, actualConversions, forecastCPA, forecastConversions) ==
  [cycle               |-> cycle,
   actualCPA           |-> actualCPA,
   actualConversions   |-> actualConversions,
   forecastCPA         |-> forecastCPA,
   forecastConversions |-> forecastConversions]

InitialPerformanceData ==
  << Point("Cycle 1", Dec(48, 1), Dec(150, 1), Dec(50, 1), Dec(125, 1)),
     Point("Cycle 2", Dec(43, 1), Dec(155, 1), Dec(45, 1), Dec(150, 1)),
     Point("Cycle 3", Dec(40, 1), Dec(175, 1), Dec(42, 1), Dec(165, 1)),
     Point("Cycle 4", Dec(38, 1), Dec(195, 1), Dec(40, 1), Dec(190, 1)) >>

Activity(cycle, suggested, implemented, requestedButNotControlled) ==
  [cycle                     |-> cycle,
   suggested                 |-> suggested,
   implemented               |-> implemented,
   requestedButNotControlled |-> requestedButNotControlled]

\* pre-populated AI activity history for Cycles 1-4
InitialAiActivities ==
  << Activity("Cycle 1",
       << "Refine audience targeting towards high converters to reduce CPA.",
          "Expand lookalike audiences focused on recent purchasers." >>,
       << "Did: Lookalike audience expansion",
          "Did: Demographic targeting refinements",
          "Applied forecast change: +8% → Audience" >>,
       << "Requested: Access to CRM segments",
          "Requested: Geo-location targeting permissions" >>),
     Activity("Cycle 2",
       << "Run A/B tests with simplified layouts to improve conversion rates.",
          "Prioritize headline and CTA variants on high-traffic pages." >>,
       << "Did: Headline/CTA suggestions",
          "Did: Layout recommendations (A/B setup)",
          "Applied forecast change: +10% → Landing Page" >>,
       << "Requested: Ability to modify landing page templates",
          "Requested: Access to form conversion data" >>),
     Activity("Cycle 3",
       << "Shift spend towards publishers delivering the lowest CPA.",
          "Rebalance budget to increase delivery on top-performing channels." >>,
       << "Did: Budget allocation recommendations",
          "Did: Channel performance analysis and reweighting",
          "Applied forecast change: +6% → Media Inventory" >>,
       << "Requested: Authority to adjust media mix",
          "Requested: Direct DSP access" >>),
     Activity("Cycle 4",
       << "Test new ad concepts with different CTAs and visuals to boost engagement.",
          "Introduce dynamic CTAs for high-value segments." >>,
       << "Did: Automated creative variant generation",
          "Did: Dynamic CTA testing",
          "Applied forecast change: +12% → Creative" >>,
       << "Requested: Direct integration with creative approval workflows",
          "Requested: Access to DAM for assets" >>) >>

Insight(text, improvement, aiControl, aiRequest) ==
  [text |-> text, improvement |-> improvement, aiControl |-> aiControl, aiRequest |-> aiRequest]

InsightPanels == {"Audience", "Landing Page", "Media Inventory", "Creative", "Data Feed Optimization"}

BaseInsights == [panel \in InsightPanels |->
  CASE panel = "Audience" ->
         Insight("Refine audience targeting towards high converters to reduce CPA.",
                 Dec(8, 1),
                 <<"Lookalike audience expansion", "Demographic targeting refinements">>,
                 <<"Access to CRM segments", "Geo-location targeting permissions">>)
    [] panel = "Landing Page" ->
         Insight("Run A/B tests with simplified layouts to improve conversion rates.",
                 Dec(10, 1),
                 <<"Headline/CTA suggestions", "Layout recommendations">>,
                 <<"Ability to modify landing page templates", "Access to form conversion data">>)
    [] panel = "Media Inventory" ->
         Insight("Shift spend towards publishers delivering the lowest CPA. Based on goals (e.g., awareness), some channels are more effective than others.",
                 Dec(6, 1),
                 <<"Budget allocation recommendations", "Channel performance analysis">>,
                 <<"Authority to adjust media mix", "Direct DSP access">>)
    [] panel = "Creative" ->
         Insight("Test new ad concepts with different CTAs and visuals to boost engagement.",
                 Dec(12, 1),
                 <<"Automated creative variant generation", "Dynamic CTA testing">>,
                 <<"Direct integration with creative approval workflows", "Access to DAM for assets">>)
    [] panel = "Data Feed Optimization" ->
         Insight("Leverage DCO to personalize creative with real-time product data.",
                 Dec(7, 1),
                 <<"Real-time feed monitoring", "Automated variant insertion">>,
                 <<"Permission to modify product catalog fields", "Deeper CDP integration">>)]

DataFeedSubcategories ==
  << [name |-> "CDP Data (batch or real-time)",                  improvement |-> Dec(5, 1)],
     [name |-> "Product Catalog Data",                           improvement |-> Dec(4, 1)],
     [name |-> "Identity Data (personalization)",                improvement |-> Dec(6, 1)],
     [name |-> "Variant Scaling Data (colors, headlines, CTAs)", improvement |-> Dec(3, 1)] >>

\* subs.some((s) => s.name === label)
SomeNamed(subs, label) == \E i \in 1..Len(subs) : subs[i].name = label

\* An optional value (a missing argument, undefined) is a sequence of length
\* at most one.
Undefined == <<>>
Some(v) == <<v>>

\* variant: a label found in no table is filed under "Media Inventory"
FindParentPanelDefaulting(label) ==
  IF label \in DOMAIN BaseInsights THEN Some(label)
  ELSE IF SomeNamed(DataFeedSubcategories, label) THEN Some("Data Feed Optimization")
  ELSE Some("Media Inventory")

FindParentPanel(label) ==
  IF label \in DOMAIN BaseInsights THEN Some(label)
  ELSE IF SomeNamed(MediaInventorySubcategories, label) THEN Some("Media Inventory")
  ELSE IF SomeNamed(DataFeedSubcategories, label) THEN Some("Data Feed Optimization")
  ELSE Undefined

\* improvement ?? (panelKey ? baseInsights[panelKey]?.improvement || 0 : 0)
Imp(improvement, panelKey) ==
  IF improvement # Undefined THEN improvement[1]
  ELSE IF panelKey # Undefined
       THEN IF panelKey[1] \in DOMAIN BaseInsights /\ BaseInsights[panelKey[1]].improvement.n # 0
            THEN BaseInsights[panelKey[1]].improvement
            ELSE Dec(0, 1)
       ELSE Dec(0, 1)

RECURSIVE FractionDigits(_, _)
\* the decimal digits of r / d for 0 <= r < d, without trailing zeros
FractionDigits(r, d) ==
  IF r = 0 THEN ""
  ELSE ToString((10 * r) \div d) \o FractionDigits((10 * r) % d, d)

\* `${x}` for a non-negative number x: the shortest decimal that names it
NumberToString(x) ==
  IF IsNaN(x) THEN "NaN"
  ELSE IF x.n % x.d = 0 THEN ToString(x.n \div x.d)
  ELSE ToString(x.n \div x.d) \o "." \o FractionDigits(x.n % x.d, x.d)

\* `Forecast: ${label}`
CycleLabel(label) == "Forecast: " \o label

\* list.map((i) => `${prefix}${i}`)
MapPrefix(prefix, list) == [i \in 1..Len(list) |-> prefix \o list[i]]

\* variant: the forecast is chained from the last actual values
LastForecastFromActuals(last) == Pair(last.actualCPA, last.actualConversions)

\* { CPA: last.forecastCPA, Conversions: last.forecastConversions }
LastForecast(last) == Pair(last.forecastCPA, last.forecastConversions)

\* variant: the new point restarts its actual values from the forecast
NewPointActualsFromForecast(last, label, forecast) ==
  Point(CycleLabel(label), last.forecastCPA, last.forecastConversions,
        forecast.CPA, forecast.Conversions)

\* the row appended to the performance log
NewPoint(last, label, forecast) ==
  Point(CycleLabel(label), last.actualCPA, last.actualConversions,
        forecast.CPA, forecast.Conversions)

\* variant: the record is labelled with the bare label
NewActivityBareLabel(label, panelKey, imp) ==
  LET known == panelKey # Undefined /\ panelKey[1] \in DOMAIN BaseInsights
      info  == BaseInsights[panelKey[1]]
      applied == "Applied forecast change: +" \o NumberToString(imp) \o "% → " \o label
  IN  Activity(label,
               IF known THEN <<info.text>> ELSE <<>>,
               (IF known THEN MapPrefix("Did: ", info.aiControl) ELSE <<>>) \o <<applied>>,
               IF known THEN MapPrefix("Requested: ", info.aiRequest) ELSE <<>>)

\* the AI activity record built for the cycle
NewActivity(label, panelKey, imp) ==
  LET known == panelKey # Undefined /\ panelKey[1] \in DOMAIN BaseInsights
      info  == BaseInsights[panelKey[1]]
      applied == "Applied forecast change: +" \o NumberToString(imp) \o "% → " \o label
  IN  Activity(CycleLabel(label),
               IF known THEN <<info.text>> ELSE <<>>,
               (IF known THEN MapPrefix("Did: ", info.aiControl) ELSE <<>>) \o <<applied>>,
               IF known THEN MapPrefix("Requested: ", info.aiRequest) ELSE <<>>)

\* variant: the new row is put in front of the log
AppendRowInFront(d, row) == <<row>> \o d

\* (d) => [...d, row]
AppendRow(d, row) == Append(d, row)

\* improvement: Undefined when the argument is omitted, else Some(numeral)
ApplyImprovement(label, improvement) ==
  LET last     == performanceData[Len(performanceData)]
      panelKey == FindParentPanel(label)
      imp      == Imp(improvement, panelKey)
      forecast == ComputeForecast(LastForecast(last), imp)
  IN  /\ performanceData' = AppendRow(performanceData, NewPoint(last, label, forecast))
      /\ aiActivities' = AppendRow(aiActivities, NewActivity(label, panelKey, imp))
      /\ lastCall' = [op          |-> "applyImprovement",
                      label       |-> label,
                      improvement |-> improvement,
                      imp         |-> imp]
      /\ UNCHANGED <<mediaAlloc, selectedChannel, sliderMoves>>
      /\ UNCHANGED <<appVars, audienceVars, engineVars>>

(***************************************************************************)
(* computeAdjustedImprovement                                              *)
(***************************************************************************)
\* the two returns of computeAdjustedImprovement, for a numeral pct
ComputeAdjustedImprovement(pct) ==
  IF ~IsFinite(pct) \/ pct.n <= 0 THEN 0
  ELSE MathRound(FMul(ToDouble(pct), ToDouble(Dec(75, 100))))

(***************************************************************************)
(* Panels, campaign goal, creative variants                                *)
(***************************************************************************)
PANELS == <<"Overview", "Coverage", "Audience", "Landing Page", "Media Inventory",
            "Creative", "Data Feed Optimization", "Decision Engine", "AI Activities">>
Panels == {PANELS[i] : i \in 1..Len(PANELS)}

\* goalOptions, by value
GoalOptions == <<"Awareness", "Consideration", "Traffic", "Engagement",
                 "Lead Generation", "Conversion", "Catalog Sales", "Store Traffic">>
Goals == {GoalOptions[i] : i \in 1..Len(GoalOptions)}

Variant(id, headline, cta) == [id |-> id, headline |-> headline, cta |-> cta]

\* useState initial value of variants (the second headline has an en dash
\* where this one has a hyphen)
InitialVariants ==
  << Variant(1, "Shop Now for Exclusive Deals!", "Buy Now"),
     Variant(2, "Limited Time Offer - Save Big Today!", "Shop Today") >>

\* newVariant of generateVariant, from the variants of the current render
NewVariant(current) ==
  Variant(Len(current) + 1,
          "AI Generated Headline " \o ToString(Len(current) + 1),
          "Learn More")

(***************************************************************************)
(* Audience sentiment and suggestions                                      *)
(***************************************************************************)
Sentiment(category, score, trend, topTerms) ==
  [category |-> category, score |-> score, trend |-> trend, topTerms |-> topTerms]

InitialAudienceSentiment ==
  << Sentiment("Sustainability", 78, "up", <<"recyclable", "eco-friendly", "sustain">>),
     Sentiment("Price", 42, "down", <<"discount", "sale", "affordable">>),
     Sentiment("Quality", 64, "up", <<"durable", "premium", "long-lasting">>),
     Sentiment("Customer Service", 51, "flat", <<"support", "return", "warranty">>) >>

Suggestion(title, reason, improvement) ==
  [title |-> title, reason |-> reason, improvement |-> improvement]

\* Math.round(s.score * rate) for a rate given in hundredths
ScaledScore(score, hundredths) ==
  MathRound(FMul(FromInt(score), ToDouble(Dec(hundredths, 100))))

\* the suggestion pushed for one sentiment category
SuggestionFor(s) ==
  IF s.score >= 70
  THEN Suggestion("Expand to interest: " \o s.category,
                  "Positive trending sentiment (" \o ToString(s.score)
                    \o "%). Target lookalikes and interest cohorts referencing "
                    \o s.topTerms[1] \o ".",
                  Max(2, ScaledScore(s.score, 6)))
  ELSE IF s.score >= 45
  THEN Suggestion("A/B test messaging for " \o s.category,
                  "Neutral sentiment (" \o ToString(s.score)
                    \o "%). Run headline/CTA variants emphasizing "
                    \o s.topTerms[1] \o ".",
                  Max(1, ScaledScore(s.score, 3)))
  ELSE Suggestion("Retarget with reassurance on " \o s.category,
                  "Lower sentiment (" \o ToString(s.score)
                    \o "%). Use retargeting with guarantees, offers, or testimonials about "
                    \o s.topTerms[1] \o ".",
                  Max(1, ScaledScore(s.score, 2)))

\* one suggestion per sentiment, pushed in the order of the list
ComputeAudienceSuggestions(sentiments) ==
  [i \in 1..Len(sentiments) |-> SuggestionFor(sentiments[i])]

\* the values of Math.round((Math.random() - 0.5) * 12)
JitterValues == -6..6

\* jitters tried in one refresh, one per category: the two extremes for all
\* and three mixed draws
JitterSamples ==
  { <<6, 6, 6, 6>>, <<-6, -6, -6, -6>>,
    <<4, -3, 6, -6>>, <<0, 5, -4, 1>>, <<-1, 2, 3, -5>> }

Trend(jitter) == IF jitter > 3 THEN "up" ELSE IF jitter < -3 THEN "down" ELSE "flat"

\* variant: the score is only kept from falling below 0
JitteredNoCeiling(s, jitter) ==
  [s EXCEPT !.score = Max(0, s.score + jitter), !.trend = Trend(jitter)]

\* { ...s, score, trend } of refreshAudienceSentiment
Jittered(s, jitter) ==
  [s EXCEPT !.score = Min(100, Max(0, s.score + jitter)), !.trend = Trend(jitter)]

(***************************************************************************)
(* Decision Engine                                                         *)
(***************************************************************************)
Engines == {"Azure Personalizer", "Vowpal Wabbit"}

\* ranked[0] of the simulated engines. Every score is a Math.random() term
\* plus a bonus fixed by the candidate and the signals: with Azure
\* Personalizer act_1 scores below 0.6 and act_2 at least 0.643, so act_1
\* is never first; with Vowpal Wabbit the three ranges overlap.
TopCandidates(eng) ==
  IF eng = "Azure Personalizer" THEN {"act_2", "act_3"}
  ELSE {"act_1", "act_2", "act_3"}

\* `rank_${Date.now()}_az` and `rank_${Date.now()}_vw`
EventId(now, eng) ==
  "rank_" \o ToString(now) \o (IF eng = "Azure Personalizer" THEN "_az" ELSE "_vw")

\* the fields of a rank response the reward events read
RankResponse(eventId, candidateId) == [eventId |-> eventId, candidateId |-> candidateId]

RewardEvent(eventId, candidateId, reward) ==
  [eventId |-> eventId, candidateId |-> candidateId, reward |-> reward]

\* values of Number((0.55 + Math.random() * 0.3).toFixed(2)) tried
RewardSamples == {Dec(55, 100), Dec(85, 100)}

(***************************************************************************)
(* User actions                                                            *)
(***************************************************************************)
\* onClick of a channel button: setSelectedChannel(key)
SelectChannel(key) ==
  /\ key # selectedChannel
  /\ selectedChannel' = key
  /\ UNCHANGED <<mediaAlloc, sliderMoves, performanceData, aiActivities, lastCall>>
  /\ UNCHANGED <<appVars, audienceVars, engineVars>>

\* variant: a slider change also appends a point to the performance log
SliderChangeAndForecast(value) ==
  /\ sliderMoves < MaxSliderMoves
  /\ SetAllocForChannel(selectedChannel, value)
  /\ sliderMoves' = sliderMoves + 1
  /\ performanceData' = Append(performanceData, performanceData[Len(performanceData)])
  /\ UNCHANGED <<selectedChannel, aiActivities, lastCall>>
  /\ UNCHANGED <<appVars, audienceVars, engineVars>>

\* onChange of the range input: setAllocForChannel(selectedChannel, value)
SliderChange(value) ==
  /\ sliderMoves < MaxSliderMoves
  /\ SetAllocForChannel(selectedChannel, value)
  /\ sliderMoves' = sliderMoves + 1
  /\ UNCHANGED <<selectedChannel, performanceData, aiActivities, lastCall>>
  /\ UNCHANGED <<appVars, audienceVars, engineVars>>

\* onClick of "Forecast Impact" in the panel `title`
ForecastImpact(title) ==
  /\ Len(performanceData) < Len(InitialPerformanceData) + MaxApplies
  /\ ApplyImprovement(title, Undefined)

\* onClick of "Forecast Composite" in the media-mix simulator
ForecastComposite ==
  /\ Len(performanceData) < Len(InitialPerformanceData) + MaxApplies
  /\ \E composite \in {ComputeCompositeImprovement(mediaAlloc)} :
       ApplyImprovement("Media Composite", Some(composite))

\* labels found in no table: the simulator's own label and a channel that is
\* not a subcategory
UnlistedLabels == {"Media Composite", "Podcast"}

\* applyImprovement(label) for a label that is neither a panel nor a
\* subcategory name, the improvement argument omitted
ApplyUnlisted(label) ==
  /\ Len(performanceData) < Len(InitialPerformanceData) + MaxApplies
  /\ ApplyImprovement(label, Undefined)

\* onClick of "Apply" next to the i-th audience suggestion
ApplyAudienceSuggestion(i) ==
  /\ Len(performanceData) < Len(InitialPerformanceData) + MaxApplies
  /\ \E sg \in {audienceSuggestions[i]} :
       ApplyImprovement("Audience (" \o sg.title \o ")", Some(Dec(sg.improvement, 1)))

\* onClick of "Refresh Sentiment": one jitter per category
RefreshAudienceSentiment ==
  /\ refreshes < MaxRefreshes
  /\ \E jitters \in JitterSamples :
       LET next == [i \in 1..Len(audienceSentiment) |->
                      Jittered(audienceSentiment[i], jitters[i])]
       IN  /\ audienceSentiment' = next
           /\ audienceSuggestions' = ComputeAudienceSuggestions(next)
  /\ refreshes' = refreshes + 1
  /\ UNCHANGED <<mediaAlloc, selectedChannel, sliderMoves, performanceData, aiActivities, lastCall>>
  /\ UNCHANGED <<appVars, engineVars>>

\* onClick of a left-nav button or of an overview card: setActive(p). The
\* Decision Engine component is rendered only while its panel is shown:
\* leaving the panel unmounts it, its state is created afresh on return, and
\* a callback of the unmounted instance that is still pending sets nothing.
SetActive(p) ==
  /\ navMoves < MaxNavMoves
  /\ p # active
  /\ active' = p
  /\ navMoves' = navMoves + 1
  /\ IF active = "Decision Engine"
     THEN /\ engine' = "Azure Personalizer"
          /\ rankResp' = Undefined
          /\ autoApply' = FALSE
          /\ lastReward' = Undefined
          /\ timers' = <<>>
     ELSE UNCHANGED <<engineState, timers>>
  /\ UNCHANGED <<mediaAlloc, selectedChannel, sliderMoves, performanceData, aiActivities, lastCall>>
  /\ UNCHANGED <<selectedGoal, variants, audienceVars, ranks>>

\* onChange of the campaign goal selector: setSelectedGoal(value)
SetSelectedGoal(value) ==
  /\ navMoves < MaxNavMoves
  /\ value # selectedGoal
  /\ selectedGoal' = value
  /\ navMoves' = navMoves + 1
  /\ UNCHANGED <<mediaAlloc, selectedChannel, sliderMoves, performanceData, aiActivities, lastCall>>
  /\ UNCHANGED <<active, variants, audienceVars, engineVars>>

\* onClick of "Generate New Variant": setVariants((v) => [...v, newVariant])
GenerateVariant ==
  /\ variants' = Append(variants, NewVariant(variants))
  /\ UNCHANGED <<mediaAlloc, selectedChannel, sliderMoves, performanceData, aiActivities, lastCall>>
  /\ UNCHANGED <<active, selectedGoal, navMoves, audienceVars, engineVars>>

\* onChange of the engine selector: setEngine(value)
SetEngine(value) ==
  /\ value # engine
  /\ engine' = value
  /\ UNCHANGED <<mediaAlloc, selectedChannel, sliderMoves, performanceData, aiActivities, lastCall>>
  /\ UNCHANGED <<rankResp, autoApply, lastReward, timers, ranks, appVars, audienceVars>>

\* onChange of the auto-apply checkbox: setAutoApply(e.target.checked)
SetAutoApply(checked) ==
  /\ checked # autoApply
  /\ autoApply' = checked
  /\ UNCHANGED <<mediaAlloc, selectedChannel, sliderMoves, performanceData, aiActivities, lastCall>>
  /\ UNCHANGED <<engine, rankResp, lastReward, timers, ranks, appVars, audienceVars>>

\* onClick of "Get recommendations": runRank. The clock read for the event
\* id is the ordinal of the click; with auto-apply the callback handed to
\* setTimeout keeps `res` in its closure.
RunRank ==
  /\ ranks < MaxRanks
  /\ \E candidateId \in TopCandidates(engine) :
       LET res == RankResponse(EventId(ranks + 1, engine), candidateId)
       IN  /\ rankResp' = Some(res)
           /\ timers' = IF autoApply THEN Append(timers, res) ELSE timers
  /\ ranks' = ranks + 1
  /\ UNCHANGED <<mediaAlloc, selectedChannel, sliderMoves, performanceData, aiActivities, lastCall>>
  /\ UNCHANGED <<engine, autoApply, lastReward, appVars, audienceVars>>

\* onClick of "Approve & apply": approveChosen
ApproveChosen ==
  /\ rankResp # Undefined
  /\ \E reward \in RewardSamples :
       lastReward' = Some(RewardEvent(rankResp[1].eventId, rankResp[1].candidateId, reward))
  /\ UNCHANGED <<mediaAlloc, selectedChannel, sliderMoves, performanceData, aiActivities, lastCall>>
  /\ UNCHANGED <<engine, rankResp, autoApply, timers, ranks, appVars, audienceVars>>

\* variant: the callback reads the rank response of the state
RewardOfCallbackFromState(res, current, reward) ==
  RewardEvent(current[1].eventId, current[1].candidateId, reward)

\* evt of the callback handed to setTimeout, `res` being the response in its
\* closure and `current` the rankResp of the state
RewardOfCallback(res, current, reward) ==
  RewardEvent(res.eventId, res.candidateId, reward)

\* the callbacks of setTimeout(..., 600) run in the order they were handed
\* over, each 600 ms after its click
AutoApplyCallback ==
  /\ timers # <<>>
  /\ \E reward \in RewardSamples :
       lastReward' = Some(RewardOfCallback(Head(timers), rankResp, reward))
  /\ timers' = Tail(timers)
  /\ UNCHANGED <<mediaAlloc, selectedChannel, sliderMoves, performanceData, aiActivities, lastCall>>
  /\ UNCHANGED <<engine, rankResp, autoApply, ranks, appVars, audienceVars>>

Init ==
  /\ mediaAlloc = InitialMediaAlloc
  /\ selectedChannel = "OOH"
  /\ sliderMoves = 0
  /\ performanceData = InitialPerformanceData
  /\ aiActivities = InitialAiActivities
  /\ lastCall = NoCall
  /\ active = "Overview"
  /\ selectedGoal = GoalOptions[1]
  /\ variants = InitialVariants
  /\ navMoves = 0
  /\ audienceSentiment = InitialAudienceSentiment
  /\ audienceSuggestions = ComputeAudienceSuggestions(InitialAudienceSentiment)
  /\ refreshes = 0
  /\ engine = "Azure Personalizer"
  /\ rankResp = Undefined
  /\ autoApply = FALSE
  /\ lastReward = Undefined
  /\ timers = <<>>
  /\ ranks = 0

NextAlloc ==
  \/ \E key \in Channels : SelectChannel(key)
  \/ \E value \in SliderValues : SliderChange(value)

\* the media-mix simulator: channel buttons and the slider
SpecAlloc == Init /\ [][NextAlloc]_vars

NextApply ==
  \/ \E title \in InsightPanels : ForecastImpact(title)
  \/ ForecastComposite
  \/ \E label \in UnlistedLabels : ApplyUnlisted(label)

\* the forecast buttons: every click appends to the two logs
SpecApply == Init /\ [][NextApply]_vars

NextAudience == RefreshAudienceSentiment

\* the Audience panel: every click on "Refresh Sentiment"
SpecAudience == Init /\ [][NextAudience]_vars

OnEnginePanel == active = "Decision Engine"

NextEngine ==
  \/ \E p \in Panels : SetActive(p)
  \/ \E value \in Engines : OnEnginePanel /\ SetEngine(value)
  \/ \E checked \in BOOLEAN : OnEnginePanel /\ SetAutoApply(checked)
  \/ OnEnginePanel /\ RunRank
  \/ OnEnginePanel /\ ApproveChosen
  \/ AutoApplyCallback

\* the Decision Engine panel: its controls, the pending callbacks and the
\* navigation that mounts and unmounts it
SpecEngine == Init /\ [][NextEngine]_vars

\* clicks made so far in a session through the panels
SessionClicks ==
  sliderMoves + navMoves + refreshes
    + (Len(performanceData) - Len(InitialPerformanceData))
    + (Len(variants) - Len(InitialVariants))

\* the session is open and the panel `p` is shown
OnPanel(p) == SessionClicks < MaxSession /\ active = p

NextSession ==
  \/ \E p \in Panels : SessionClicks < MaxSession /\ SetActive(p)
  \/ \E value \in Goals : OnPanel("Overview") /\ SetSelectedGoal(value)
  \/ \E title \in InsightPanels : OnPanel(title) /\ ForecastImpact(title)
  \/ \E key \in Channels : OnPanel("Media Inventory") /\ SelectChannel(key)
  \/ \E value \in SliderValues : OnPanel("Media Inventory") /\ SliderChange(value)
  \/ OnPanel("Media Inventory") /\ ForecastComposite
  \/ OnPanel("Creative") /\ GenerateVariant
  \/ OnPanel("Audience") /\ RefreshAudienceSentiment
  \/ \E i \in 1..Len(InitialAudienceSentiment) : OnPanel("Audience") /\ ApplyAudienceSuggestion(i)

\* a session through the panels: each control is clicked on the panel that
\* shows it
SpecSession == Init /\ [][NextSession]_vars

(***************************************************************************)
(* Direct calls of the helpers, on arguments drawn from bounded sets; each  *)
(* behaviour makes one call and keeps its arguments and result.            *)
(***************************************************************************)
\* prior pairs: those of the dev tests and of the initial performance data,
\* further two-decimal CPAs, and pairs with a three-decimal CPA or a
\* fractional Conversions
ForecastLasts ==
  { Pair(Dec(100, 1), Dec(200, 1)),  Pair(Dec(40, 1), Dec(190, 1)),
    Pair(Dec(80, 1), Dec(50, 1)),    Pair(Dec(50, 1), Dec(125, 1)),
    Pair(Dec(45, 1), Dec(150, 1)),   Pair(Dec(42, 1), Dec(165, 1)),
    Pair(Dec(0, 1), Dec(0, 1)),      Pair(Dec(1, 1), Dec(1, 1)),
    Pair(Dec(3525, 100), Dec(209, 1)),  Pair(Dec(3760, 100), Dec(100, 1)),
    Pair(Dec(1005, 1000), Dec(105, 10)), Pair(Dec(33333, 1000), Dec(2015, 10)) }

\* every whole percentage in [0,100] and some fractional ones
ForecastImprovements ==
  {Dec(10 * p, 10) : p \in 0..100} \cup {Dec(t, 10) : t \in {5, 22, 25, 39, 102, 133}}

CallComputeForecast(last, improvement) ==
  /\ lastCall = NoCall
  /\ lastCall' = [op          |-> "computeForecast",
                  last        |-> last,
                  improvement |-> improvement,
                  result      |-> ComputeForecast(last, improvement)]
  /\ UNCHANGED <<mediaAlloc, selectedChannel, sliderMoves, performanceData, aiActivities>>
  /\ UNCHANGED <<appVars, audienceVars, engineVars>>

ShareSamples == {0, 1, 15, 25, 30, 100}

\* allocations with non-negative shares, and some whose total is not positive
CompositeAllocs ==
  [Channels -> ShareSamples] \cup [Channels -> {-5, 0}]

CallComputeCompositeImprovement(alloc) ==
  /\ lastCall = NoCall
  /\ lastCall' = [op     |-> "computeCompositeImprovement",
                  alloc  |-> alloc,
                  result |-> ComputeCompositeImprovement(alloc)]
  /\ UNCHANGED <<mediaAlloc, selectedChannel, sliderMoves, performanceData, aiActivities>>
  /\ UNCHANGED <<appVars, audienceVars, engineVars>>

\* every tenth from -5.5 to 105.5, some numerals just beside a half or a
\* limit, and the non-finite values
ClampInputs ==
  {Dec(n, 10) : n \in -55..1055}
    \cup {Dec(49499, 1000), Dec(49501, 1000), Dec(100001, 1000), Dec(-1, 1000)}
    \cup {NaN, PosInfinity, NegInfinity}

CallClampPercent(n) ==
  /\ lastCall = NoCall
  /\ lastCall' = [op |-> "clampPercent", n |-> n, result |-> ClampPercent(n)]
  /\ UNCHANGED <<mediaAlloc, selectedChannel, sliderMoves, performanceData, aiActivities>>
  /\ UNCHANGED <<appVars, audienceVars, engineVars>>

Alloc(ooh, tv, digital, ctv) ==
  [k \in Channels |->
     CASE k = "OOH" -> ooh [] k = "TV" -> tv [] k = "Digital" -> digital [] k = "CTV" -> ctv]

\* allocations the slider reaches from the initial one
AllocSamples ==
  { InitialMediaAlloc,
    Alloc(100, 0, 0, 0),    \* OOH to 100
    Alloc(0, 0, 100, 0),    \* Digital to 100
    Alloc(66, 15, 12, 7),   \* OOH to 66
    Alloc(1, 2, 96, 1),     \* Digital to 96
    Alloc(0, 43, 36, 21),   \* OOH to 0
    Alloc(0, 44, 35, 21),   \* OOH to 0, TV to 44
    Alloc(0, 46, 34, 20),   \* OOH to 0, TV to 46
    Alloc(0, 0, 63, 38) }   \* OOH to 0, TV to 44, TV to 0

\* raw values: slider positions, fractions, values outside [0,100] and the
\* non-finite ones
RawSamples ==
  {Dec(v, 1) : v \in {0, 1, 25, 33, 50, 51, 66, 68, 99, 100}}
    \cup {Dec(t, 10) : t \in {4, 335, 495, 496, 995, 1004}}
    \cup {Dec(105, 1), Dec(250, 1), Dec(-5, 1), Dec(-4, 10), Dec(-15, 10)}
    \cup {NaN, PosInfinity, NegInfinity}

CallSetAllocForChannel(current, channel, rawVal) ==
  /\ lastCall = NoCall
  /\ lastCall' = [op      |-> "setAllocForChannel",
                  current |-> current,
                  channel |-> channel,
                  rawVal  |-> rawVal,
                  result  |-> NewAllocOfRaw(current, channel, rawVal)]
  /\ UNCHANGED <<mediaAlloc, selectedChannel, sliderMoves, performanceData, aiActivities>>
  /\ UNCHANGED <<appVars, audienceVars, engineVars>>

\* every whole percentage from 0 to 100, the fractional composite rates,
\* a negative one and the non-finite values
AdjustedInputs ==
  {Dec(p, 1) : p \in 0..100}
    \cup {Dec(t, 10) : t \in {22, 39, 102, 133}}
    \cup {Dec(-5, 1), NaN, PosInfinity, NegInfinity}

CallComputeAdjustedImprovement(pct) ==
  /\ lastCall = NoCall
  /\ lastCall' = [op |-> "computeAdjustedImprovement", pct |-> pct,
                  result |-> ComputeAdjustedImprovement(pct)]
  /\ UNCHANGED <<mediaAlloc, selectedChannel, sliderMoves, performanceData, aiActivities>>
  /\ UNCHANGED <<appVars, audienceVars, engineVars>>

NextHelpers ==
  \/ \E current \in AllocSamples, channel \in Channels, rawVal \in RawSamples :
       CallSetAllocForChannel(current, channel, rawVal)
  \/ \E n \in ClampInputs : CallClampPercent(n)
  \/ \E last \in ForecastLasts, improvement \in ForecastImprovements :
       CallComputeForecast(last, improvement)
  \/ \E alloc \in CompositeAllocs : CallComputeCompositeImprovement(alloc)
  \/ \E pct \in AdjustedInputs : CallComputeAdjustedImprovement(pct)

SpecHelpers == Init /\ [][NextHelpers]_vars

(***************************************************************************)
(* Properties                                                              *)
(***************************************************************************)
Abs(x) == IF x < 0 THEN -x ELSE x

OnlyChannel(c) == [k \in Channels |-> IF k = c THEN 100 ELSE 0]

\* C1: after any sequence of slider changes from the initial allocation the
\* four shares sum to exactly 100.
C1_SumIs100 == SumSeq(mediaAlloc, Keys) = 100

\* C2: after any sequence of slider changes from the initial allocation every
\* share is an integer in [0,100]; in particular none is negative.
C2_SharesInRange == \A k \in Channels : mediaAlloc[k] \in 0..100

\* the floor at 0 of the rounding correction has acted: the correction was
\* -1 on a share that was already 0, so the total stayed at 101
C2_Witness ==
  /\ sliderMoves > 0
  /\ SumSeq(mediaAlloc, Keys) = 101
  /\ \E k \in Channels : mediaAlloc[k] = 0

\* C3: setting any channel c to 100 leaves c at 100 and the other three at 0,
\* whatever the shares were before (also when the others summed to 0).
C3_SetTo100 ==
  [][\A c \in Channels :
       (selectedChannel = c /\ SliderChange(100)) => mediaAlloc' = OnlyChannel(c)]_vars

\* a channel other than the initially selected one holds 100 after two slider
\* changes, the others 0
C3_Witness ==
  /\ sliderMoves = 2
  /\ selectedChannel = "Digital"
  /\ mediaAlloc = OnlyChannel("Digital")

IsForecastCall == lastCall.op = "computeForecast"

\* C4: for every prior pair and every improvement p in [0,100] the returned
\* CPA is a two-decimal number nearest to last.CPA * (1 - p/100): it is within
\* half a hundredth of the exact product.
C4_ForecastCPA ==
  IsForecastCall =>
    LET n == lastCall.last.CPA.n
        d == lastCall.last.CPA.d
        t == lastCall.improvement.n
        k == lastCall.result.CPA.n
    IN  /\ lastCall.result.CPA.d = 100
        /\ Abs(20 * k * d - 2 * n * (1000 - t)) <= 10 * d

\* the dev test: {CPA: 40, Conversions: 190} with 2.5% gives CPA 39
C4_Witness ==
  /\ IsForecastCall
  /\ lastCall.last.CPA = Dec(40, 1)
  /\ lastCall.improvement = Dec(25, 10)
  /\ lastCall.result.CPA = Dec(3900, 100)

\* C5: for every prior pair and every improvement p the returned Conversions
\* is an integer nearest to last.Conversions * (1 + p/100): it is within one
\* half of the exact product.
C5_ForecastConversions ==
  IsForecastCall =>
    LET n == lastCall.last.Conversions.n
        d == lastCall.last.Conversions.d
        t == lastCall.improvement.n
        j == lastCall.result.Conversions.n
    IN  /\ lastCall.result.Conversions.d = 1
        /\ Abs(2000 * d * j - 2 * n * (1000 + t)) <= 1000 * d

\* the dev test: {CPA: 100, Conversions: 200} with 10% gives 220 conversions
C5_Witness ==
  /\ IsForecastCall
  /\ lastCall.last.Conversions = Dec(200, 1)
  /\ lastCall.improvement = Dec(100, 10)
  /\ lastCall.result.Conversions = Dec(220, 1)

SameNumber(x, y) == FEq(ToDouble(x), ToDouble(y))
AtMostTwoDecimals(x) == (100 * x.n) % x.d = 0
IsInteger(x) == x.n % x.d = 0

ForecastReturnsInput ==
  /\ SameNumber(lastCall.result.CPA, lastCall.last.CPA)
  /\ SameNumber(lastCall.result.Conversions, lastCall.last.Conversions)

\* C6 as stated: computeForecast(x, 0) returns x unchanged for every input pair.
C6_IdentityEveryPair ==
  (IsForecastCall /\ lastCall.improvement.n = 0) => ForecastReturnsInput

\* C6 as amended: computeForecast(x, 0) returns x unchanged for every pair x
\* whose CPA has at most two decimal places and whose Conversions is an
\* integer.
C6_IdentityRounded ==
  (/\ IsForecastCall
   /\ lastCall.improvement.n = 0
   /\ AtMostTwoDecimals(lastCall.last.CPA)
   /\ IsInteger(lastCall.last.Conversions)) => ForecastReturnsInput

\* a two-decimal CPA and an integer Conversions come back unchanged at 0%
C6_Witness ==
  /\ IsForecastCall
  /\ lastCall.improvement.n = 0
  /\ lastCall.last = Pair(Dec(3525, 100), Dec(209, 1))
  /\ lastCall.result = Pair(Dec(3525, 100), Dec(209, 1))

\* C7: with improvement 100 and a non-negative integer Conversions the result
\* is CPA 0 and twice the prior Conversions.
C7_Improvement100 ==
  (/\ IsForecastCall
   /\ lastCall.improvement = Dec(1000, 10)
   /\ IsInteger(lastCall.last.Conversions)) =>
     /\ lastCall.result.CPA.n = 0
     /\ lastCall.result.Conversions =
          Dec(2 * (lastCall.last.Conversions.n \div lastCall.last.Conversions.d), 1)

\* the dev test: {CPA: 80, Conversions: 50} with 100% gives {CPA: 0, Conversions: 100}
C7_Witness ==
  /\ IsForecastCall
  /\ lastCall.improvement = Dec(1000, 10)
  /\ lastCall.last = Pair(Dec(80, 1), Dec(50, 1))
  /\ lastCall.result = Pair(Dec(0, 100), Dec(100, 1))

IsCompositeCall == lastCall.op = "computeCompositeImprovement"

\* the rates of the four channels, in tenths of a percentage point
RateTenths(c) ==
  CASE c = "OOH" -> 133 [] c = "TV" -> 102 [] c = "Digital" -> 39 [] c = "CTV" -> 22

\* C8: for every allocation with positive total the result is a one-decimal
\* number nearest to the spend-weighted average of the rates 13.3, 10.2, 3.9
\* and 2.2: in tenths it is within one half of sum(alloc[c] * rate[c]) / total.
C8_WeightedAverage ==
  LET a     == lastCall.alloc
      total == SumSeq(a, Keys)
      exact == a.OOH * RateTenths("OOH") + a.TV * RateTenths("TV")
                 + a.Digital * RateTenths("Digital") + a.CTV * RateTenths("CTV")
  IN  (IsCompositeCall /\ total > 0) =>
        /\ lastCall.result.d = 10
        /\ Abs(2 * lastCall.result.n * total - 2 * exact) <= total

\* the initial allocation 30/30/25/15 scores 8.4 (exactly 8.355)
C8_Witness ==
  /\ IsCompositeCall
  /\ lastCall.alloc = InitialMediaAlloc
  /\ lastCall.result = Dec(84, 10)

\* C9: for four equal positive shares the result is the unweighted average
\* of the four rates rounded to one decimal, 7.4.
C9_EqualShares ==
  (/\ IsCompositeCall
   /\ lastCall.alloc.OOH > 0
   /\ \A k \in Channels : lastCall.alloc[k] = lastCall.alloc.OOH) =>
     /\ lastCall.result = Dec(74, 10)
     /\ 4 * lastCall.result.n =
          RateTenths("OOH") + RateTenths("TV") + RateTenths("Digital") + RateTenths("CTV")

\* 25/25/25/25 scores 7.4
C9_Witness ==
  /\ IsCompositeCall
  /\ lastCall.alloc = [k \in Channels |-> 25]
  /\ lastCall.result = Dec(74, 10)

\* C10: the result is 0 whenever the four shares sum to zero or less; the
\* division by the total is not reached (it would yield NaN for a zero total).
C10_NonPositiveTotal ==
  (IsCompositeCall /\ SumSeq(lastCall.alloc, Keys) <= 0) =>
    (lastCall.result.n = 0 /\ lastCall.result.d # 0)

\* the all-zero allocation scores 0
C10_Witness ==
  /\ IsCompositeCall
  /\ lastCall.alloc = [k \in Channels |-> 0]
  /\ lastCall.result = Dec(0, 1)

IsClampCall == lastCall.op = "clampPercent"

\* C11: clampPercent(n) is 0 when n is NaN or n < 0, 100 when n > 100, and
\* otherwise an integer nearest to n; the result is always an integer in
\* [0,100] (105 -> 100, -5 -> 0, 49.6 -> 50, NaN -> 0).
C11_ClampPercent ==
  IsClampCall =>
    LET n == lastCall.n
        r == lastCall.result
    IN  /\ r \in 0..100
        /\ (IsNaN(n) \/ n.n < 0) => r = 0
        /\ (n.n > 0 /\ (IsFinite(n) => n.n > 100 * n.d)) => r = 100
        /\ (IsFinite(n) /\ n.n >= 0 /\ n.n <= 100 * n.d) =>
             Abs(2 * n.d * r - 2 * n.n) <= n.d
        /\ n = Dec(1050, 10) => r = 100
        /\ n = Dec(-50, 10) => r = 0
        /\ n = Dec(496, 10) => r = 50

\* the dev test: clampPercent(49.6) is 50
C11_Witness ==
  /\ IsClampCall
  /\ lastCall.n = Dec(496, 10)
  /\ lastCall.result = 50

IsPrefix(s, u) == Len(s) <= Len(u) /\ SubSeq(u, 1, Len(s)) = s

\* C12: the performance log is append-only: at every step the previous log
\* is a prefix of the new log, so no point (the four initial cycles included)
\* is ever removed, reordered or changed.
C12_AppendOnly == [][IsPrefix(performanceData, performanceData')]_vars

\* two points have been appended after the four initial cycles
C12_Witness ==
  /\ Len(performanceData) = Len(InitialPerformanceData) + 2
  /\ SubSeq(performanceData, 1, Len(InitialPerformanceData)) = InitialPerformanceData

IsApplyCall == lastCall.op = "applyImprovement"

\* C13: every applyImprovement appends exactly one point to the performance
\* log and exactly one record to the activity log, both labelled
\* "Forecast: <label>"; the two logs always have the same length.
C13_OneRecordEach ==
  /\ [](Len(performanceData) = Len(aiActivities))
  /\ [][(IsApplyCall' /\ vars' # vars) =>
          /\ performanceData' =
               performanceData \o <<performanceData'[Len(performanceData')]>>
          /\ aiActivities' = aiActivities \o <<aiActivities'[Len(aiActivities')]>>
          /\ performanceData'[Len(performanceData')].cycle = "Forecast: " \o lastCall'.label
          /\ aiActivities'[Len(aiActivities')].cycle = "Forecast: " \o lastCall'.label]_vars

\* after "Forecast Impact" in the Audience panel both logs have five entries,
\* the fifth of each labelled "Forecast: Audience"
C13_Witness ==
  /\ Len(performanceData) = 5
  /\ Len(aiActivities) = 5
  /\ performanceData[5].cycle = "Forecast: Audience"
  /\ aiActivities[5].cycle = "Forecast: Audience"

\* C14: every appended point k has forecastCPA and forecastConversions equal
\* to computeForecast of the forecast fields of point k-1 with the
\* improvement percentage of the action that appended it.
C14_ForecastChained ==
  [][Len(performanceData') > Len(performanceData) =>
       LET k    == Len(performanceData')
           new  == performanceData'[k]
           prev == performanceData'[k - 1]
       IN  Pair(new.forecastCPA, new.forecastConversions) =
             ComputeForecast(Pair(prev.forecastCPA, prev.forecastConversions),
                             lastCall'.imp)]_vars

\* Creative (12%) applied after Audience (8%): 40 -> 36.8 -> 32.38 and
\* 190 -> 205 -> 230
C14_Witness ==
  /\ Len(performanceData) = 6
  /\ performanceData[5].cycle = "Forecast: Audience"
  /\ performanceData[6].cycle = "Forecast: Creative"
  /\ performanceData[5].forecastCPA = Dec(3680, 100)
  /\ performanceData[6].forecastCPA = Dec(3238, 100)
  /\ performanceData[6].forecastConversions = Dec(230, 1)

\* C15: every appended point carries the actualCPA and actualConversions of
\* the point before it; hence all appended points have the actual values of
\* Cycle 4, 38 and 195.
C15_ActualsCarried ==
  \A k \in (Len(InitialPerformanceData) + 1)..Len(performanceData) :
    /\ performanceData[k].actualCPA = performanceData[k - 1].actualCPA
    /\ performanceData[k].actualConversions = performanceData[k - 1].actualConversions
    /\ performanceData[k].actualCPA = Dec(38, 1)
    /\ performanceData[k].actualConversions = Dec(195, 1)

\* the second appended point still has the actual values 38 and 195 although
\* its forecast has moved on
C15_Witness ==
  /\ Len(performanceData) >= 6
  /\ performanceData[6].actualCPA = Dec(38, 1)
  /\ performanceData[6].actualConversions = Dec(195, 1)
  /\ performanceData[6].forecastCPA # performanceData[4].forecastCPA

\* the names of the panels with an insight and of the subcategories
ListedLabels ==
  InsightPanels
    \cup {MediaInventorySubcategories[i].name : i \in 1..Len(MediaInventorySubcategories)}
    \cup {DataFeedSubcategories[i].name : i \in 1..Len(DataFeedSubcategories)}

\* C19: applyImprovement with a label that is neither a panel nor a
\* subcategory name and with no explicit improvement uses 0: it appends one
\* point whose forecast fields equal the previous point's, and one activity
\* record with empty suggested and requested lists whose implemented list
\* holds only "Applied forecast change: +0% → <label>".
C19_UnlistedLabel ==
  [][(/\ IsApplyCall'
      /\ vars' # vars
      /\ lastCall'.label \notin ListedLabels
      /\ lastCall'.improvement = Undefined) =>
       LET k      == Len(performanceData')
           new    == performanceData'[k]
           prev   == performanceData[Len(performanceData)]
           record == aiActivities'[Len(aiActivities')]
       IN  /\ k = Len(performanceData) + 1
           /\ Len(aiActivities') = Len(aiActivities) + 1
           /\ SameNumber(new.forecastCPA, prev.forecastCPA)
           /\ SameNumber(new.forecastConversions, prev.forecastConversions)
           /\ record.suggested = <<>>
           /\ record.requestedButNotControlled = <<>>
           /\ record.implemented =
                <<"Applied forecast change: +0% → " \o lastCall'.label>>]_vars

\* "Podcast" applied after Creative: the forecast stays at 35.2 and 213
C19_Witness ==
  /\ IsApplyCall
  /\ lastCall.label = "Podcast"
  /\ Len(performanceData) = 6
  /\ performanceData[5].forecastCPA = Dec(3520, 100)
  /\ performanceData[6].forecastCPA = Dec(3520, 100)
  /\ performanceData[6].forecastConversions = Dec(213, 1)
  /\ aiActivities[6].implemented = <<"Applied forecast change: +0% → Podcast">>

IsSetAllocCall == lastCall.op = "setAllocForChannel"

\* r is an integer nearest to the numeral x
NearestInteger(r, x) == Abs(2 * x.d * r - 2 * x.n) <= x.d

\* C16: after setAllocForChannel the just-set channel holds rawVal rounded to
\* the nearest integer and clamped into [0,100] (below 0 acts as 0, above 100
\* as 100); the rounding fix-up never alters it.
C16_SetChannelValue ==
  (IsSetAllocCall /\ ~IsNaN(lastCall.rawVal)) =>
    LET x   == lastCall.rawVal
        set == lastCall.result[lastCall.channel]
    IN  /\ set.d = 1
        /\ IF IsFinite(x)
           THEN \E r \in (x.n \div x.d - 1)..(x.n \div x.d + 1) :
                  /\ NearestInteger(r, x)
                  /\ set.n = (IF r < 0 THEN 0 ELSE IF r > 100 THEN 100 ELSE r)
           ELSE set.n = (IF x.n > 0 THEN 100 ELSE 0)

\* TV set to 49.6 from the initial allocation holds 50
C16_Witness ==
  /\ IsSetAllocCall
  /\ lastCall.current = InitialMediaAlloc
  /\ lastCall.channel = "TV"
  /\ lastCall.rawVal = Dec(496, 10)
  /\ lastCall.result = Numerals(Alloc(21, 50, 18, 11))

\* the call has a number for rawVal and other channels that sum to more
\* than 0
IsProportionalCall ==
  /\ IsSetAllocCall
  /\ ~IsNaN(lastCall.rawVal)
  /\ SumSeq(lastCall.current, Others(lastCall.channel)) > 0

\* Math.round of the quotient a / b of two natural numbers, b > 0
RoundQuotient(a, b) == (2 * a + b) \div (2 * b)

\* the first other channel holds what the set channel and the remaining two
\* leave of 100, floored at 0
FirstOtherTakesCorrection ==
  LET others == Others(lastCall.channel)
      res    == lastCall.result
  IN  res[others[1]].n =
        Max(0, 100 - res[lastCall.channel].n - res[others[2]].n - res[others[3]].n)

\* C17 as stated: when the other channels sum to more than 0, every other
\* channel but the first ends with exactly round(current[o] * remaining /
\* prevSum), remaining = 100 - val; only the first receives the correction
\* delta = 100 - sum, floored at 0.
C17_ExactShares ==
  IsProportionalCall =>
    LET others    == Others(lastCall.channel)
        prevSum   == SumSeq(lastCall.current, others)
        remaining == 100 - lastCall.result[lastCall.channel].n
    IN  /\ \A i \in 2..Len(others) :
             lastCall.result[others[i]] =
               Dec(RoundQuotient(lastCall.current[others[i]] * remaining, prevSum), 1)
        /\ FirstOtherTakesCorrection

\* C17 as amended: every other channel but the first ends with
\* Math.round(current[o] / prevSum * remaining) as binary64 evaluates it, an
\* integer nearest to current[o] * remaining / prevSum that may be the lower
\* one on an exact half; only the first receives the correction, floored at 0.
C17_NearestShares ==
  IsProportionalCall =>
    LET others    == Others(lastCall.channel)
        prevSum   == SumSeq(lastCall.current, others)
        remaining == 100 - lastCall.result[lastCall.channel].n
    IN  /\ \A i \in 2..Len(others) :
             /\ lastCall.result[others[i]].d = 1
             /\ NearestInteger(lastCall.result[others[i]].n,
                               Dec(lastCall.current[others[i]] * remaining, prevSum))
        /\ FirstOtherTakesCorrection

\* OOH set to 50 from 66/15/12/7: TV takes the correction (22 + 1), Digital
\* and CTV keep their rounded shares 18 and 10
C17_Witness ==
  /\ IsProportionalCall
  /\ lastCall.current = Alloc(66, 15, 12, 7)
  /\ lastCall.channel = "OOH"
  /\ lastCall.rawVal = Dec(50, 1)
  /\ lastCall.result = Numerals(Alloc(50, 22, 18, 10))

\* C18: when the other channels sum to 0, each gets floor(remaining / 3) and
\* the first of them also the leftover remaining mod 3, remaining = 100 - val;
\* the three sum to remaining and differ from each other by at most 2.
C18_EqualSplit ==
  (/\ IsSetAllocCall
   /\ ~IsNaN(lastCall.rawVal)
   /\ SumSeq(lastCall.current, Others(lastCall.channel)) = 0) =>
    LET others    == Others(lastCall.channel)
        res       == lastCall.result
        remaining == 100 - res[lastCall.channel].n
    IN  /\ res[others[1]] = Dec((remaining \div 3) + (remaining % 3), 1)
        /\ \A i \in 2..Len(others) : res[others[i]] = Dec(remaining \div 3, 1)
        /\ res[others[1]].n + res[others[2]].n + res[others[3]].n = remaining
        /\ \A i, j \in 1..Len(others) : Abs(res[others[i]].n - res[others[j]].n) <= 2

\* OOH lowered from 100 to 33: 67 is split 23/22/22
C18_Witness ==
  /\ IsSetAllocCall
  /\ lastCall.current = Alloc(100, 0, 0, 0)
  /\ lastCall.channel = "OOH"
  /\ lastCall.rawVal = Dec(33, 1)
  /\ lastCall.result = Numerals(Alloc(33, 23, 22, 22))

\* C20: for a non-finite rawVal, NaN behaves like 0, +Infinity like 100 and
\* -Infinity like 0, and the result consists of four integers in [0,100]
\* summing to 100.
C20_NonFiniteRaw ==
  (IsSetAllocCall /\ ~IsFinite(lastCall.rawVal)) =>
    LET like == IF lastCall.rawVal = PosInfinity THEN 100 ELSE 0
        res  == lastCall.result
    IN  /\ \A k \in Channels : res[k].d = 1 /\ res[k].n \in 0..100
        /\ res[Keys[1]].n + res[Keys[2]].n + res[Keys[3]].n + res[Keys[4]].n = 100
        /\ res = NewAllocOfRaw(lastCall.current, lastCall.channel, Dec(like, 1))

IsAdjustedCall == lastCall.op = "computeAdjustedImprovement"

\* C23: for every whole improvement percentage pct from 1 to 100 shown as
\* "Potential Improvement", computeAdjustedImprovement(pct), the "Estimated
\* improvement if granted", differs from pct.
C23_AdjustedDiffers ==
  (IsAdjustedCall /\ lastCall.pct.d = 1 /\ lastCall.pct.n \in 1..100) =>
    lastCall.result # lastCall.pct.n

\* C24: in every allocation reached from the initial one, a channel other
\* than the one the slider sets whose share is 0 still has 0 after the slider
\* change, provided another channel other than the one set has a positive
\* share: neither the redistribution nor the rounding correction brings a
\* zero channel back.
C24_ZeroStaysZero ==
  [][sliderMoves' # sliderMoves =>
       \A o \in Channels :
         ( /\ o # selectedChannel
           /\ mediaAlloc[o] = 0
           /\ \E k \in Channels : k # selectedChannel /\ k # o /\ mediaAlloc[k] > 0 )
         => mediaAlloc'[o] = 0]_vars

\* OOH and then TV were set to 0: when TV was set, OOH was at 0 beside the
\* positive Digital and CTV, and it is the channel the correction goes to
C24_Witness ==
  /\ sliderMoves = 2
  /\ selectedChannel = "TV"
  /\ mediaAlloc["OOH"] = 0 /\ mediaAlloc["TV"] = 0
  /\ mediaAlloc["Digital"] > 0 /\ mediaAlloc["CTV"] > 0

\* C25: setAllocForChannel called on a channel with the value that channel
\* already has leaves an allocation reached from the initial one as it is.
C25_SameValueNoChange ==
  (IsSetAllocCall /\ lastCall.rawVal = Dec(lastCall.current[lastCall.channel], 1)) =>
    lastCall.result = Numerals(lastCall.current)

\* C27: for every allocation reached from the initial one the composite
\* improvement lies between the smallest and the largest channel rate, 2.2
\* and 13.3, so "Forecast Composite" applies a strictly positive improvement.
\* An allocation that is reached is the initial one or one that
\* setAllocForChannel has returned for an allocation reached before.
C27_CompositeRange ==
  /\ lastCall = NoCall =>
       ComputeCompositeImprovement(mediaAlloc) \in {Dec(tenths, 10) : tenths \in 22..133}
  /\ (IsSetAllocCall /\ ~IsNaN(lastCall.rawVal)) =>
       ComputeCompositeImprovement([k \in Channels |-> lastCall.result[k].n])
         \in {Dec(tenths, 10) : tenths \in 22..133}

\* the slider put everything on CTV, the channel with the smallest rate
C27_Witness ==
  /\ IsSetAllocCall
  /\ lastCall.current = InitialMediaAlloc
  /\ lastCall.result = Numerals(OnlyChannel("CTV"))

SuggestionTitles(category) ==
  { "Expand to interest: " \o category,
    "A/B test messaging for " \o category,
    "Retarget with reassurance on " \o category }

\* C30: after any number of "Refresh Sentiment" clicks every sentiment score
\* is an integer in [0,100], and the suggestions are those computed from the
\* current sentiment list: one per category, in the order of the list, each
\* with an integer improvement between 1 and 6, and a category with a higher
\* score never has a smaller improvement.
C30_SentimentAndSuggestions ==
  LET n == Len(audienceSentiment)
  IN  /\ \A i \in 1..n : audienceSentiment[i].score \in 0..100
      /\ audienceSuggestions = ComputeAudienceSuggestions(audienceSentiment)
      /\ Len(audienceSuggestions) = n
      /\ \A i \in 1..n :
           /\ audienceSuggestions[i].title \in SuggestionTitles(audienceSentiment[i].category)
           /\ audienceSuggestions[i].improvement \in 1..6
      /\ \A i, j \in 1..n :
           audienceSentiment[i].score <= audienceSentiment[j].score
             => audienceSuggestions[i].improvement <= audienceSuggestions[j].improvement

\* after eight refreshes that all drew -6, Price, which started at 42, is
\* held at 0, and its suggestion still has the improvement 1
C30_Witness ==
  /\ refreshes = MaxRefreshes
  /\ audienceSentiment[1].score = 30
  /\ audienceSentiment[2].score = 0
  /\ audienceSuggestions[2].improvement = 1

\* C22: the performance log and the activity log change only through
\* applyImprovement: a slider change, a channel selection, a panel change, a
\* goal selection and a variant generation leave both logs as they are, and a
\* step that changes a log appends to both the row of the applyImprovement
\* call and leaves the allocation and the selected channel as they are.
C22_LogsFrame ==
  [][ /\ ( \/ sliderMoves' # sliderMoves
           \/ selectedChannel' # selectedChannel
           \/ active' # active
           \/ selectedGoal' # selectedGoal
           \/ variants' # variants )
         => UNCHANGED <<performanceData, aiActivities>>
      /\ (performanceData' # performanceData \/ aiActivities' # aiActivities)
         => /\ lastCall'.op = "applyImprovement"
            /\ Len(performanceData') = Len(performanceData) + 1
            /\ Len(aiActivities') = Len(aiActivities) + 1
            /\ IsPrefix(performanceData, performanceData')
            /\ IsPrefix(aiActivities, aiActivities')
            /\ performanceData'[Len(performanceData')].cycle = CycleLabel(lastCall'.label)
            /\ aiActivities'[Len(aiActivities')].cycle = CycleLabel(lastCall'.label)
            /\ UNCHANGED <<mediaAlloc, selectedChannel>> ]_vars

\* on the Media Inventory panel the slider was moved and its composite then
\* forecast: the logs have one more row and the moved allocation is kept
C22_Witness ==
  /\ active = "Media Inventory"
  /\ sliderMoves = 1
  /\ mediaAlloc # InitialMediaAlloc
  /\ Len(performanceData) = Len(InitialPerformanceData) + 1
  /\ performanceData[Len(performanceData)].cycle = "Forecast: Media Composite"

\* x <= y for finite numerals
NumeralLeq(x, y) == x.n * y.d <= y.n * x.d

\* C26: along the performance log, from one point to the next, forecastCPA
\* never rises and is never negative and forecastConversions never falls;
\* every improvement applied from a panel (a panel's own percentage, the
\* composite, an audience suggestion) lies in [0,100].
C26_ForecastMonotone ==
  /\ \A k \in 1..Len(performanceData) :
       performanceData[k].forecastCPA.n >= 0
  /\ \A k \in 2..Len(performanceData) :
       /\ NumeralLeq(performanceData[k].forecastCPA, performanceData[k - 1].forecastCPA)
       /\ NumeralLeq(performanceData[k - 1].forecastConversions,
                     performanceData[k].forecastConversions)
  /\ IsApplyCall =>
       /\ NumeralLeq(Dec(0, 1), lastCall.imp)
       /\ NumeralLeq(lastCall.imp, Dec(100, 1))

\* an audience suggestion (5%) and then the Audience panel's own 8% were
\* applied: 40 -> 38 -> 34.96 and 190 -> 200 -> 216
C26_Witness ==
  /\ Len(performanceData) = 6
  /\ performanceData[5].cycle = "Forecast: Audience (Expand to interest: Sustainability)"
  /\ performanceData[6].cycle = "Forecast: Audience"
  /\ performanceData[5].forecastCPA = Dec(3800, 100)
  /\ performanceData[6].forecastCPA = Dec(3496, 100)
  /\ performanceData[6].forecastConversions = Dec(216, 1)

\* C28: no two records of the activity log have the same cycle label, the
\* key by which the AI Activities panel lists them.
C28_DistinctCycleLabels ==
  \A i, j \in 1..Len(aiActivities) :
    i # j => aiActivities[i].cycle # aiActivities[j].cycle

\* the step runs the oldest pending callback: no click handler is running
CallbackRuns == timers # <<>> /\ timers' = Tail(timers) /\ active' = active

C29_RewardForCurrentRank ==
  [][(lastReward' # lastReward /\ lastReward' # Undefined) =>
       /\ rankResp # Undefined
       /\ lastReward'[1].eventId = rankResp[1].eventId
       /\ lastReward'[1].candidateId = rankResp[1].candidateId]_vars

=============================================================================
